---- MODULE Spec2Model ----
(***************************************************************************)
(* Model of the sliding-window load-distribution code of global_fcns.py:   *)
(* get_load_dist (the weekday-class filter and the day-of-year window) and *)
(* calc_daily_load_distributions (the two 365-day sweeps that build the    *)
(* quantile tables).                                                       *)
(*                                                                         *)
(* A DataFrame is a record [cols, rows]: cols is the set of column names,  *)
(* rows the sequence of rows in index (date) order.  A row carries its     *)
(* index value in the field date and one field per column.  A date is a    *)
(* day number counted from the first day of the first modelled year.       *)
(* Quantile values are kept as integers scaled by 100, so that the linear  *)
(* interpolation of the percentiles 1, 5, 50, 95 and 99 is exact.          *)
(***************************************************************************)
EXTENDS Integers, Sequences, FiniteSets, TLC

VARIABLES daily_load, passed, pc, call, sub, load_forecasts_week,
          load_forecasts_wknd, ret

vars == <<daily_load, passed, pc, call, sub, load_forecasts_week,
          load_forecasts_wknd, ret>>

-----------------------------------------------------------------------------
(* Bounds of the model *)

\* a drawn series has at most MaxRecords rows
MaxRecords == 2

\* daily loads are drawn from 1..MaxLoad
MaxLoad == 2

-----------------------------------------------------------------------------
(* Calendar: what DatetimeIndex.dayofyear and .dayofweek compute *)

\* lengths of the modelled years 2019, 2020 (leap), 2021
YearLens == <<365, 366, 365>>

RECURSIVE YearStart(_)
\* day number of 1 January of the y-th modelled year
YearStart(y) == IF y = 1 THEN 0 ELSE YearStart(y - 1) + YearLens[y - 1]

\* the date with day-of-year d in the y-th modelled year
Date(y, d) == YearStart(y) + d - 1

\* the modelled year a date falls in
YearOf(n) == CHOOSE y \in 1..Len(YearLens) :
                 YearStart(y) <= n /\ n < YearStart(y) + YearLens[y]

\* DatetimeIndex.dayofyear: 1-based position in the year, 366 on 31 December
\* of a leap year
DayOfYear(n) == n - YearStart(YearOf(n)) + 1

\* DatetimeIndex.dayofweek: 0 = Monday .. 6 = Sunday; 1 January 2019 is a
\* Tuesday
DayOfWeek(n) == (n + 1) % 7

-----------------------------------------------------------------------------
(* Sequences and frames *)

Range(s) == {s[i] : i \in DOMAIN s}

RECURSIVE SeqOfDates(_)
\* the dates of S in increasing order (the index of daily_load is sorted:
\* total_load_by_day groups by date)
SeqOfDates(S) ==
    IF S = {} THEN <<>>
    ELSE LET m == CHOOSE d \in S : \A e \in S : d <= e
         IN  <<m>> \o SeqOfDates(S \ {m})

\* the frame total_load_by_day returns: one row per date, one column 'load'
RawFrame(S, f) ==
    LET ds == SeqOfDates(S)
    IN  [cols |-> {"load"},
         rows |-> [i \in DOMAIN ds |-> [date |-> ds[i], load |-> f[ds[i]]]]]

\* the rows of a frame that satisfy Test, in order (boolean-mask indexing)
Mask(frame, Test(_)) == [cols |-> frame.cols, rows |-> SelectSeq(frame.rows, Test)]

\* the 'load' column as a sequence
LoadColumn(frame) == [i \in DOMAIN frame.rows |-> frame.rows[i].load]

-----------------------------------------------------------------------------
(* calc_daily_load_distributions, lines 162-163 *)

\* the variant that also drops the rows of day 366
AttachColumnsDropLeap(frame) ==
    [cols |-> frame.cols \cup {"dayofyear", "dayofweek"},
     rows |-> SelectSeq([i \in DOMAIN frame.rows |->
                  [date |-> frame.rows[i].date, load |-> frame.rows[i].load,
                   dayofyear |-> DayOfYear(frame.rows[i].date),
                   dayofweek |-> DayOfWeek(frame.rows[i].date)]],
                  LAMBDA r : r.dayofyear <= 365)]

\* daily_load['dayofyear'] = ...; daily_load['dayofweek'] = ... : the two
\* columns are set (added, or overwritten) on the frame itself
AttachColumns(frame) ==
    [cols |-> frame.cols \cup {"dayofyear", "dayofweek"},
     rows |-> [i \in DOMAIN frame.rows |->
                  [date |-> frame.rows[i].date, load |-> frame.rows[i].load,
                   dayofyear |-> DayOfYear(frame.rows[i].date),
                   dayofweek |-> DayOfWeek(frame.rows[i].date)]]]

-----------------------------------------------------------------------------
(* get_load_dist *)

\* the variant with the calendar's Monday-Friday / Saturday-Sunday split
ClassFilterStd(frame, weekday) ==
    IF weekday
    THEN Mask(frame, LAMBDA r : r.dayofweek \in {0, 1, 2, 3, 4})
    ELSE Mask(frame, LAMBDA r : r.dayofweek \in {5, 6})

\* lines 144-147: isin([1,2,3,4,5]) or isin([0,6])
ClassFilter(frame, weekday) ==
    IF weekday
    THEN Mask(frame, LAMBDA r : r.dayofweek \in {1, 2, 3, 4, 5})
    ELSE Mask(frame, LAMBDA r : r.dayofweek \in {0, 6})

\* the variant whose lower bound is strict in the wrapped branches
get_load_dist_strict(frame, center_day, window_rad, weekday) ==
    LET filtered == ClassFilter(frame, weekday)
        lo == (center_day - window_rad) % 365
        hi == (center_day + window_rad) % 365
    IN  IF center_day - window_rad < 0
        THEN Mask(filtered, LAMBDA r : r.dayofyear > lo \/ r.dayofyear <= hi)
        ELSE IF center_day + window_rad > 364
        THEN Mask(filtered, LAMBDA r : r.dayofyear > lo \/ r.dayofyear <= hi)
        ELSE Mask(filtered, LAMBDA r : r.dayofyear >= lo /\ r.dayofyear <= hi)

\* lines 140-157
get_load_dist(frame, center_day, window_rad, weekday) ==
    LET filtered == ClassFilter(frame, weekday)
        lo == (center_day - window_rad) % 365
        hi == (center_day + window_rad) % 365
    IN  IF center_day - window_rad < 0
        THEN Mask(filtered, LAMBDA r : r.dayofyear >= lo \/ r.dayofyear <= hi)
        ELSE IF center_day + window_rad > 364
        THEN Mask(filtered, LAMBDA r : r.dayofyear >= lo \/ r.dayofyear <= hi)
        ELSE Mask(filtered, LAMBDA r : r.dayofyear >= lo /\ r.dayofyear <= hi)

-----------------------------------------------------------------------------
(* Series.quantile(q=[0.01,0.05,0.5,0.95,0.99]), lines 169 and 175 *)

\* the percentiles asked for, in percent
Quantiles == {1, 5, 50, 95, 99}

\* a missing value, and a present value (scaled by 100)
NaN == [isnan |-> TRUE, val |-> 0]
Val(v) == [isnan |-> FALSE, val |-> v]

RECURSIVE Insert(_, _)
\* x inserted into the ascending sequence s
Insert(x, s) ==
    IF s = <<>> THEN <<x>>
    ELSE IF x <= Head(s) THEN <<x>> \o s
    ELSE <<Head(s)>> \o Insert(x, Tail(s))

RECURSIVE SortedLoads(_)
\* the values in ascending order: the order statistics
SortedLoads(s) == IF s = <<>> THEN <<>> ELSE Insert(Head(s), SortedLoads(Tail(s)))

\* the variant that takes the values in index order
UnsortedLoads(s) == s

\* the order statistics the quantile interpolates between
OrderStatistics(s) == SortedLoads(s)

\* one percentile p of the values, by linear interpolation: the virtual
\* index is (n-1)*p/100, the result x[lo] + frac*(x[hi]-x[lo]); NaN when
\* there are no values
Percentile(values, p) ==
    LET n == Len(values)
    IN  IF n = 0 THEN NaN
        ELSE LET x   == OrderStatistics(values)
                 pos == (n - 1) * p
                 lo  == pos \div 100
                 hi  == IF lo + 1 < n THEN lo + 1 ELSE lo
                 g   == pos % 100
             IN  Val(100 * x[lo + 1] + g * (x[hi + 1] - x[lo + 1]))

\* the variant that yields 0 for an empty sample
quantile_zero(values) ==
    [p \in Quantiles |-> IF Len(values) = 0 THEN Val(0) ELSE Percentile(values, p)]

\* the Series the call returns: one value per requested percentile
quantile(values) == [p \in Quantiles |-> Percentile(values, p)]

-----------------------------------------------------------------------------
(* calc_daily_load_distributions, lines 166-177 *)

\* the variant that runs one day further
CenterDays366 == 1..366

\* range(1,366)
CenterDays == 1..365

\* one sweep: load_forecasts[center_day] = load_dist['load'].quantile(...)
\* for every center_day; the table maps a column (center day) to its Series
Sweep(frame, window_rad, weekday) ==
    [center_day \in CenterDays |->
        quantile(LoadColumn(get_load_dist(frame, center_day, window_rad, weekday)))]

\* DataFrame.transpose: the columns become the index
Transpose(table) ==
    [p \in Quantiles |-> [center_day \in DOMAIN table |-> table[center_day][p]]]

-----------------------------------------------------------------------------
(* Inputs *)

\* the dates a drawn series may hold: 1 Jan 2019 (Tue), 2 Jul 2019 (Tue,
\* day 183), 30 Dec 2019 (Mon, day 364), 31 Dec 2019 (Tue, day 365) and
\* 31 Dec 2020 (Thu, day 366)
CandidateDates == {Date(1, 1), Date(1, 183), Date(1, 364), Date(1, 365),
                   Date(2, 366)}

\* a series whose weekday class has a record on each of the days 358..365,
\* 1..9 and 200 (each date taken from a year where it is a Tuesday..Saturday)
WrapDates ==
    {Date(1, d) : d \in {358, 359, 360, 361, 362, 365, 1, 2, 3, 4, 5, 8, 9, 200}}
    \cup {Date(2, 364), Date(2, 7), Date(3, 363), Date(3, 6)}

WrapSeries == RawFrame(WrapDates, [d \in WrapDates |-> 1])

\* the drawn series
InputSeries ==
    {RawFrame(S, f) : <<S, f>> \in
        UNION {{<<S, f>> : f \in [S -> 1..MaxLoad]} :
               S \in {T \in SUBSET CandidateDates : Cardinality(T) <= MaxRecords}}}
    \cup {WrapSeries}

\* the window radii the callers pass (7 is the default); -1 is an invalid one
WindowRads == {-1, 0, 1, 7, 184}

\* the center days a direct caller of get_load_dist passes; 0 and 366 are
\* invalid ones
CallCenterDays == 0..366

-----------------------------------------------------------------------------
(* The state machine *)

NoTable == <<>>

\* the caller holds a frame: either the one total_load_by_day returned, or
\* one that already carries the two derived columns
Init ==
    /\ \E raw \in InputSeries : daily_load \in {raw, AttachColumns(raw)}
    /\ passed = daily_load
    /\ pc = "start"
    /\ call = [fn |-> "none"]
    /\ sub = [cols |-> {}, rows |-> <<>>]
    /\ load_forecasts_week = NoTable
    /\ load_forecasts_wknd = NoTable
    /\ ret = <<>>

\* a direct call of get_load_dist (lines 140-157); the frame must carry the
\* columns the function reads
GetLoadDistCall ==
    /\ pc = "start"
    /\ {"load", "dayofyear", "dayofweek"} \subseteq daily_load.cols
    /\ \E center_day \in CallCenterDays, window_rad \in WindowRads, weekday \in BOOLEAN :
          /\ call' = [fn |-> "get_load_dist", center_day |-> center_day,
                      window_rad |-> window_rad, weekday |-> weekday]
          /\ sub' = get_load_dist(daily_load, center_day, window_rad, weekday)
    /\ pc' = "returned"
    /\ UNCHANGED <<daily_load, passed, load_forecasts_week, load_forecasts_wknd, ret>>

\* calc_daily_load_distributions is called; lines 162-163
CalcIndex ==
    /\ pc = "start"
    /\ \E window_rad \in WindowRads :
          call' = [fn |-> "calc_daily_load_distributions", window_rad |-> window_rad]
    /\ daily_load' = AttachColumns(daily_load)
    /\ pc' = "week"
    /\ UNCHANGED <<passed, sub, load_forecasts_week, load_forecasts_wknd, ret>>

\* lines 166-169: the weekday sweep
CalcWeek ==
    /\ pc = "week"
    /\ load_forecasts_week' = Sweep(daily_load, call.window_rad, TRUE)
    /\ pc' = "wknd"
    /\ UNCHANGED <<daily_load, passed, call, sub, load_forecasts_wknd, ret>>

\* lines 172-175: the weekend sweep
CalcWknd ==
    /\ pc = "wknd"
    /\ load_forecasts_wknd' = Sweep(daily_load, call.window_rad, FALSE)
    /\ pc' = "return"
    /\ UNCHANGED <<daily_load, passed, call, sub, load_forecasts_week, ret>>

\* line 177
CalcReturn ==
    /\ pc = "return"
    /\ ret' = <<Transpose(load_forecasts_week), Transpose(load_forecasts_wknd)>>
    /\ pc' = "done"
    /\ UNCHANGED <<daily_load, passed, call, sub, load_forecasts_week, load_forecasts_wknd>>

Next == GetLoadDistCall \/ CalcIndex \/ CalcWeek \/ CalcWknd \/ CalcReturn

Spec == Init /\ [][Next]_vars

-----------------------------------------------------------------------------
(* Vocabulary of the properties *)

Rows(frame) == Range(frame.rows)

\* the frame carries the derived columns
Indexed == {"dayofyear", "dayofweek"} \subseteq daily_load.cols

\* the rows of daily_load in the weekday class (Tuesday..Saturday) or in the
\* weekend class (Monday, Sunday)
ClassRows(weekday) ==
    {r \in Rows(daily_load) :
        IF weekday THEN r.dayofweek \in 1..5 ELSE r.dayofweek \in {0, 6}}

\* distance of two days on the ring of 365 days
CircDist(a, b) ==
    LET d == (a - b) % 365 IN IF d <= 365 - d THEN d ELSE 365 - d

\* get_load_dist has returned from a direct call
Returned == pc = "returned"

\* that call had a center day in 1..365 and a non-negative radius
ValidCall == Returned /\ call.center_day \in 1..365 /\ call.window_rad >= 0

\* the days the wrap-around example names
WrapDays == (358..365) \cup (1..9)

\* the class-filtered series of the returned call has a record on each of
\* the days 358..365, 1..9 and 200
CoversWrapDays ==
    \A d \in WrapDays \cup {200} :
        \E r \in ClassRows(call.weekday) : r.dayofyear = d

\* the window of a sweep is empty for this center day and class
EmptyWindow(center_day, weekday) ==
    get_load_dist(daily_load, center_day, call.window_rad, weekday).rows = <<>>

\* index of the table of a class in the returned pair
TableOf(weekday) == IF weekday THEN 1 ELSE 2

-----------------------------------------------------------------------------
(* Properties *)

\* C1: for center_day in 1..365 and window_rad >= 0, get_load_dist returns
\* exactly the records of the class (on days 1..365) whose dayofyear is
\* within window_rad of center_day on the ring of 365 days.
C1_CircularWindow ==
    ValidCall =>
        \A r \in ClassRows(call.weekday) :
            r.dayofyear <= 365 =>
                (r \in Rows(sub) <=>
                    CircDist(r.dayofyear, call.center_day) <= call.window_rad)

\* C2: when [center_day - window_rad, center_day + window_rad] lies inside
\* 1..365, get_load_dist returns exactly the records of the class with
\* dayofyear in that closed interval (the brute-force filter).
C2_NonWrappingInterval ==
    (/\ ValidCall
     /\ call.center_day - call.window_rad >= 1
     /\ call.center_day + call.window_rad <= 365)
    => sub.rows = SelectSeq(daily_load.rows,
                    LAMBDA r : /\ r \in ClassRows(call.weekday)
                               /\ r.dayofyear >= call.center_day - call.window_rad
                               /\ r.dayofyear <= call.center_day + call.window_rad)

C4_TableShape ==
    pc = "done" =>
        /\ Len(ret) = 2
        /\ \A i \in 1..2 :
              /\ DOMAIN ret[i] = {1, 5, 50, 95, 99}
              /\ \A p \in DOMAIN ret[i] : DOMAIN ret[i][p] = 1..365

\* the tables were returned for a series that holds a leap day
C4_Witness ==
    /\ pc = "done"
    /\ \E r \in Rows(daily_load) : r.dayofyear = 366

\* C5: when the window of a center day and class is empty, the row of that
\* day holds a missing value for each quantile, and the sweep still yields
\* the rows of all 365 days, those of the non-empty windows holding values.
C5_EmptyWindowIsMissing ==
    pc = "done" =>
        \A weekday \in BOOLEAN : \A p \in Quantiles :
            /\ DOMAIN ret[TableOf(weekday)][p] = 1..365
            /\ \A center_day \in 1..365 :
                  ret[TableOf(weekday)][p][center_day].isnan
                      <=> EmptyWindow(center_day, weekday)
            /\ \A center_day \in 1..365 :
                  EmptyWindow(center_day, weekday)
                      => ret[TableOf(weekday)][p][center_day] = NaN

\* the sweep completed with an empty window on one day and a value on another
C5_Witness ==
    /\ pc = "done"
    /\ \E c1, c2 \in 1..365 :
          /\ EmptyWindow(c1, TRUE)
          /\ ret[1][50][c1] = NaN
          /\ ~EmptyWindow(c2, TRUE)
          /\ ~ret[1][50][c2].isnan

\* C6: a call with a negative window_rad, or with a center_day outside
\* 1..365, never returns a window or a profile.
C6_InvalidArgumentsRejected ==
    /\ ~(Returned /\ (call.window_rad < 0 \/ call.center_day \notin 1..365))
    /\ ~(pc = "done" /\ call.window_rad < 0)

C8_QuantilesMonotone ==
    pc = "done" =>
        \A i \in 1..2 : \A center_day \in 1..365 :
            ~ret[i][50][center_day].isnan =>
                /\ ret[i][1][center_day].val <= ret[i][5][center_day].val
                /\ ret[i][5][center_day].val <= ret[i][50][center_day].val
                /\ ret[i][50][center_day].val <= ret[i][95][center_day].val
                /\ ret[i][95][center_day].val <= ret[i][99][center_day].val

\* a row was interpolated between two different loads that stand in
\* descending order in the series: the median is their mean
C8_Witness ==
    /\ pc = "done"
    /\ Len(daily_load.rows) = 2
    /\ daily_load.rows[1].load = 2
    /\ daily_load.rows[2].load = 1
    /\ \E center_day \in 1..365 :
          /\ ret[1][1][center_day] = Val(101)
          /\ ret[1][50][center_day] = Val(150)
          /\ ret[1][99][center_day] = Val(199)

\* C9 as stated: center 2, radius 7, on a class-filtered series with records
\* on days 358..365, 1..9 and 200: every record on 358..365 and 1..9 is
\* returned and the record on day 200 is not.
C9_WrapUnion358 ==
    (Returned /\ call.center_day = 2 /\ call.window_rad = 7 /\ CoversWrapDays) =>
        \A r \in ClassRows(call.weekday) :
            /\ r.dayofyear \in WrapDays => r \in Rows(sub)
            /\ r.dayofyear = 200 => r \notin Rows(sub)

\* C9 as amended: center 2, radius 7: every record of the class on days
\* 360..365 and 1..9 is returned, and the records on days 358, 359 and 200
\* are not.
C9_WrapUnion360 ==
    (Returned /\ call.center_day = 2 /\ call.window_rad = 7) =>
        \A r \in ClassRows(call.weekday) :
            /\ r.dayofyear \in (360..365) \cup (1..9) => r \in Rows(sub)
            /\ r.dayofyear \in {358, 359, 200} => r \notin Rows(sub)

\* the call with center 2 and radius 7 returned records from both sides of
\* the year boundary, on the series that covers days 358..365, 1..9 and 200
C9_Witness ==
    /\ Returned
    /\ call.center_day = 2
    /\ call.window_rad = 7
    /\ CoversWrapDays
    /\ \E r \in Rows(sub) : r.dayofyear = 360
    /\ \E r \in Rows(sub) : r.dayofyear = 9

\* C10: for center_day in 1..365 and window_rad >= 0, every record of the
\* class on the center day is returned.
C10_WindowContainsCenter ==
    ValidCall =>
        \A r \in ClassRows(call.weekday) :
            r.dayofyear = call.center_day => r \in Rows(sub)

====
